---- MODULE Spec2Model ----
(***************************************************************************)
(* A model of the pipeworkmc-codec crate: the variable-length integer      *)
(* codec (src/varint.rs), the decode cursor (src/decode/mod.rs), the       *)
(* encode buffer (src/encode/mod.rs), the fixed-array decoder              *)
(* (src/decode/array.rs) and the protocol-state cell (src/meta.rs).        *)
(*                                                                         *)
(* Integers of the program are 32 and 64 bits wide.  They are modelled as  *)
(* bit patterns: the set of the positions (0 = least significant) of the   *)
(* bits that are 1.  Bytes are the numbers 0..255.                         *)
(***************************************************************************)
EXTENDS Integers, Sequences, FiniteSets, TLC

VARIABLES
    phase,    \* position of the scenario that drives the codec
    val,      \* the VarInt under test: [ty, bits]
    prefix,   \* PacketMeta::PREFIX of the packet type that wraps val
    elen,     \* result of encode_len (NoLen before the call)
    ebuf,     \* the EncodeBuf: [head, len, mem]
    eres,     \* how VarInt::encode ended: "none" | "ok" | "panic"
    source,   \* the bytes the DecodeIter was built over, and their kind
    di,       \* the DecodeIter: [iter, head]
    last,     \* the last cursor / decode operation and its result
    arr,      \* the frame of <[T; N] as PacketDecode>::decode
    cell,     \* the byte held by the AtomicU8 of AtomicPacketState
    thr,      \* per thread: the frame of a running fetch_update
    ret,      \* the last call on the cell and what it returned
    wins      \* per state c: successful CAS calls away from c since the
              \* cell last became c

vars == <<phase, val, prefix, elen, ebuf, eres, source, di, last, arr, cell, thr, ret, wins>>

codecVars == <<val, prefix, elen, ebuf, eres>>
arrayVars == <<arr>>
cellVars  == <<cell, thr, ret, wins>>

---------------------------------------------------------------------------
(* Bytes and bit patterns *)

SEGMENT_BITS == 127
CONTINUE_BIT == 128

RECURSIVE Pow2(_)
Pow2(n) == IF n = 0 THEN 1 ELSE 2 * Pow2(n - 1)

\* The bits of a byte, and the byte of the low eight bits of a pattern
\* (`as u8` truncates).
BitsOfByte(b) == {k \in 0..7 : (b \div Pow2(k)) % 2 = 1}

RECURSIVE SumPow2(_)
SumPow2(S) ==
    IF S = {} THEN 0
    ELSE LET k == CHOOSE x \in S : TRUE IN Pow2(k) + SumPow2(S \ {k})

AsU8(bits) == SumPow2(bits \cap (0..7))

\* byte & SEGMENT_BITS, byte & CONTINUE_BIT
ByteAnd(b, mask) == SumPow2(BitsOfByte(b) \cap BitsOfByte(mask))

VarIntTypes == {"i32", "u32", "i64", "u64"}

\* <$ty>::BITS and size_of::<$ty>()
BITS(ty)    == IF ty \in {"i32", "u32"} THEN 32 ELSE 64
size_of(ty) == BITS(ty) \div 8

\* cast_unsigned / cast_signed reinterpret the bits: the pattern is kept, the
\* type changes.
UnsignedOf(ty) == IF ty \in {"i32", "u32"} THEN "u32" ELSE "u64"
SignedOf(ty)   == IF ty \in {"i32", "u32"} THEN "i32" ELSE "i64"
cast_unsigned(v) == [ty |-> UnsignedOf(v.ty), bits |-> v.bits]
cast_signed(v)   == [ty |-> SignedOf(v.ty), bits |-> v.bits]

\* x << n and x >> n (logical) on a pattern of width w: bits leaving the
\* width are lost.
Shl(bits, n, w) == {k + n : k \in {j \in bits : j + n < w}}
Shr(bits, n)    == {k - n : k \in {j \in bits : j >= n}}


---------------------------------------------------------------------------
(* Decode cursor: src/decode/mod.rs *)

Incomplete == "Incomplete"
TooLong    == "TooLong"

\* DecodeIter::from
DecodeIter_from(bytes) == [iter |-> bytes, head |-> 0]

\* DecodeIter::consumed
consumed(d) == d.head

\* <DecodeIter as Iterator>::next: None leaves head alone.
DecodeIter_next(d) ==
    IF d.iter = <<>>
    THEN [some |-> FALSE, b |-> 0, d |-> d]
    ELSE [some |-> TRUE, b |-> Head(d.iter),
          d |-> [iter |-> Tail(d.iter), head |-> d.head + 1]]

\* DecodeIter::read
DecodeIter_read(d) ==
    IF d.iter = <<>>
    THEN [ok |-> FALSE, err |-> Incomplete, bytes |-> <<>>, d |-> d]
    ELSE [ok |-> TRUE, err |-> "", bytes |-> <<Head(d.iter)>>,
          d |-> [iter |-> Tail(d.iter), head |-> d.head + 1]]

\* `for _ in 0..count { self.iter.next().ok_or(IncompleteDecodeError)?; }`:
\* the bytes pulled from the inner iterator before it runs dry are gone, and
\* the early return skips `self.head += count`.
RECURSIVE PullLoop(_, _, _)
PullLoop(iter, n, got) ==
    IF n = 0 THEN [ok |-> TRUE, iter |-> iter, bytes |-> got]
    ELSE IF iter = <<>> THEN [ok |-> FALSE, iter |-> iter, bytes |-> got]
    ELSE PullLoop(Tail(iter), n - 1, Append(got, Head(iter)))

\* The body with `self.head += 1` after the loop.
PullCount_HeadOnce(d, count) ==
    LET p == PullLoop(d.iter, count, <<>>) IN
    IF p.ok
    THEN [ok |-> TRUE, err |-> "", bytes |-> p.bytes,
          d |-> [iter |-> p.iter, head |-> d.head + 1]]
    ELSE [ok |-> FALSE, err |-> Incomplete, bytes |-> p.bytes,
          d |-> [iter |-> p.iter, head |-> d.head]]

PullCount(d, count) ==
    LET p == PullLoop(d.iter, count, <<>>) IN
    IF p.ok
    THEN [ok |-> TRUE, err |-> "", bytes |-> p.bytes,
          d |-> [iter |-> p.iter, head |-> d.head + count]]
    ELSE [ok |-> FALSE, err |-> Incomplete, bytes |-> p.bytes,
          d |-> [iter |-> p.iter, head |-> d.head]]

\* DecodeIter::read_vec: the partly filled vector is dropped on failure.
DecodeIter_read_vec(d, count) ==
    LET r == PullCount(d, count) IN
    IF r.ok THEN r ELSE [r EXCEPT !.bytes = <<>>]

\* DecodeIter::read_arr: next_chunk::<N> takes what is left when fewer than N
\* bytes remain and hands it back inside the error, which is discarded.
DecodeIter_read_arr(d, N) ==
    IF Len(d.iter) >= N
    THEN [ok |-> TRUE, err |-> "", bytes |-> SubSeq(d.iter, 1, N),
          d |-> [iter |-> SubSeq(d.iter, N + 1, Len(d.iter)), head |-> d.head + N]]
    ELSE [ok |-> FALSE, err |-> Incomplete, bytes |-> <<>>,
          d |-> [iter |-> <<>>, head |-> d.head]]

\* DecodeIter::read_buf: `bytes` is what was stored into the caller's buffer.
DecodeIter_read_buf(d, len) == PullCount(d, len)

\* DecodeIter::skip
DecodeIter_skip(d, count) ==
    LET r == PullCount(d, count) IN [r EXCEPT !.bytes = <<>>]

---------------------------------------------------------------------------
(* VarInt: src/varint.rs *)

IsSigned(ty) == ty \in {"i32", "i64"}

\* The loop of the signed VarIntType::decode.  `shifts` records every shift
\* amount applied to a group.
RECURSIVE SignedDecodeLoop(_, _, _, _, _, _)
SignedDecodeLoop(ty, d, value, shift, cons, shifts) ==
    LET MAX_SHIFT == BITS(ty)
        n == DecodeIter_next(d)
    IN  IF ~n.some
        THEN [kind |-> Incomplete, value |-> [ty |-> ty, bits |-> {}],
              consumed |-> cons, shifts |-> shifts, d |-> n.d]
        ELSE
          LET group  == BitsOfByte(ByteAnd(n.b, SEGMENT_BITS))
              value2 == value \cup Shl(group, shift, BITS(ty))
              shifts2 == shifts \cup {shift}
          IN  IF ByteAnd(n.b, CONTINUE_BIT) = 0
              THEN [kind |-> "Ok", value |-> [ty |-> ty, bits |-> value2],
                    consumed |-> cons + 1, shifts |-> shifts2, d |-> n.d]
              ELSE IF shift + 7 > MAX_SHIFT
              THEN [kind |-> TooLong, value |-> [ty |-> ty, bits |-> {}],
                    consumed |-> cons + 1, shifts |-> shifts2, d |-> n.d]
              ELSE SignedDecodeLoop(ty, n.d, value2, shift + 7, cons + 1, shifts2)

\* The decoder with `break` where the source runs dry.
RECURSIVE LenientDecodeLoop(_, _, _, _, _, _)
LenientDecodeLoop(ty, d, value, shift, cons, shifts) ==
    LET n == DecodeIter_next(d) IN
    IF ~n.some
    THEN [kind |-> "Ok", value |-> [ty |-> ty, bits |-> value],
          consumed |-> cons, shifts |-> shifts, d |-> n.d]
    ELSE
      LET value2 == value \cup Shl(BitsOfByte(ByteAnd(n.b, SEGMENT_BITS)), shift, BITS(ty))
      IN  IF ByteAnd(n.b, CONTINUE_BIT) = 0
          THEN [kind |-> "Ok", value |-> [ty |-> ty, bits |-> value2],
                consumed |-> cons + 1, shifts |-> shifts \cup {shift}, d |-> n.d]
          ELSE IF shift + 7 > BITS(ty)
          THEN [kind |-> TooLong, value |-> [ty |-> ty, bits |-> {}],
                consumed |-> cons + 1, shifts |-> shifts \cup {shift}, d |-> n.d]
          ELSE LenientDecodeLoop(ty, n.d, value2, shift + 7, cons + 1,
                                 shifts \cup {shift})

SignedDecode_BreakOnEnd(ty, d) == LenientDecodeLoop(ty, d, {}, 0, 0, {})

\* The decoder with the length test made before `shift += 7`.
RECURSIVE LateDecodeLoop(_, _, _, _, _, _)
LateDecodeLoop(ty, d, value, shift, cons, shifts) ==
    LET n == DecodeIter_next(d) IN
    IF ~n.some
    THEN [kind |-> Incomplete, value |-> [ty |-> ty, bits |-> {}],
          consumed |-> cons, shifts |-> shifts, d |-> n.d]
    ELSE
      LET value2 == value \cup Shl(BitsOfByte(ByteAnd(n.b, SEGMENT_BITS)), shift, BITS(ty))
      IN  IF ByteAnd(n.b, CONTINUE_BIT) = 0
          THEN [kind |-> "Ok", value |-> [ty |-> ty, bits |-> value2],
                consumed |-> cons + 1, shifts |-> shifts \cup {shift}, d |-> n.d]
          ELSE IF shift > BITS(ty)
          THEN [kind |-> TooLong, value |-> [ty |-> ty, bits |-> {}],
                consumed |-> cons + 1, shifts |-> shifts \cup {shift}, d |-> n.d]
          ELSE LateDecodeLoop(ty, n.d, value2, shift + 7, cons + 1,
                              shifts \cup {shift})

SignedDecode_LateCheck(ty, d) == LateDecodeLoop(ty, d, {}, 0, 0, {})

SignedDecode(ty, d) == SignedDecodeLoop(ty, d, {}, 0, 0, {})

\* VarIntType::decode: the unsigned types run the signed decoder and
\* reinterpret the value.
VarIntType_decode(ty, d) ==
    IF IsSigned(ty)
    THEN SignedDecode(ty, d)
    ELSE LET r == SignedDecode(SignedOf(ty), d) IN
         IF r.kind = "Ok" THEN [r EXCEPT !.value = cast_unsigned(r.value)]
         ELSE [r EXCEPT !.value = [ty |-> ty, bits |-> {}]]

\* The end of VarInt::decode, given the outcome s of `buf.skip(consumed)`.
VarInt_decode_skip(ty, t, s) ==
    IF ~s.ok
    THEN [kind |-> s.err, value |-> [ty |-> ty, bits |-> {}],
          taken |-> t.consumed, shifts |-> t.shifts, d |-> s.d]
    ELSE [kind |-> "Ok", value |-> t.value, taken |-> t.consumed,
          shifts |-> t.shifts, d |-> s.d]

\* VarInt::decode from the outcome t of `T::decode(buf)?` on.
VarInt_decode_value(ty, t) ==
    IF t.kind # "Ok"
    THEN [kind |-> t.kind, value |-> t.value, taken |-> t.consumed,
          shifts |-> t.shifts, d |-> t.d]
    ELSE VarInt_decode_skip(ty, t, DecodeIter_skip(t.d, t.consumed))

\* <VarInt<T> as PacketDecode>::decode: T::decode pulls its bytes through the
\* cursor itself, then the cursor is told to skip `consumed` bytes.
VarInt_decode(ty, d) == VarInt_decode_value(ty, VarIntType_decode(ty, d))

\* The unsigned VarIntType::encode_len: `for i in (1..size_of+1).rev()`,
\* mask = Self::MAX << (7 * i).
RECURSIVE EncodeLenLoop(_, _, _)
EncodeLenLoop(ty, bits, i) ==
    IF i < 1 THEN 1
    ELSE LET mask == Shl(0..(BITS(ty) - 1), 7 * i, BITS(ty)) IN
         IF bits \cap mask # {} THEN i + 1
         ELSE EncodeLenLoop(ty, bits, i - 1)

UnsignedEncodeLen(v) == EncodeLenLoop(v.ty, v.bits, size_of(v.ty))

\* VarIntType::encode_len
VarIntType_encode_len(v) ==
    IF IsSigned(v.ty) THEN UnsignedEncodeLen(cast_unsigned(v))
    ELSE UnsignedEncodeLen(v)

\* Length of VarIntType::EncodeBuf, the scratch array.
ScratchLen(ty) == size_of(ty) + 1

\* The loop of the signed VarIntType::encode: the sequence of the bytes it
\* stores, the k-th at index k-1 of the scratch array.
RECURSIVE SignedEncodeLoop(_, _, _)
SignedEncodeLoop(ty, self, out) ==
    IF self \cap (7..(BITS(ty) - 1)) = {}
    THEN Append(out, AsU8(self))
    ELSE SignedEncodeLoop(ty, Shr(self, 7),
                          Append(out, AsU8((self \cap BitsOfByte(SEGMENT_BITS))
                                           \cup BitsOfByte(CONTINUE_BIT))))

\* VarIntType::encode: the unsigned types reinterpret and run the signed one.
VarIntType_encode(v) ==
    LET s == IF IsSigned(v.ty) THEN v ELSE cast_signed(v) IN
    SignedEncodeLoop(s.ty, s.bits, <<>>)

\* An unchecked store at or past the end of the scratch array is undefined
\* behaviour.  The builds either stop there (the precondition check of
\* get_unchecked_mut in a debug build, the bounds check of `&buf[0..i]`) or
\* carry on over the neighbouring memory and hand out the longer slice.
EncodeOutcomes(v) ==
    IF Len(VarIntType_encode(v)) <= ScratchLen(v.ty) THEN {"ok"}
    ELSE {"panic", "overrun"}

---------------------------------------------------------------------------
(* Encode buffer: src/encode/mod.rs *)

\* EncodeBuf::new
EncodeBuf_new(len) == [head |-> 0, len |-> len, mem |-> <<>>]

\* EncodeBuf::write and EncodeBuf::write_slice store at `head` without a
\* check: `mem` longer than `len` is a write past the allocation.
EncodeBuf_write(buf, b) ==
    [buf EXCEPT !.mem = Append(@, b), !.head = @ + 1]

EncodeBuf_write_slice(buf, slice) ==
    [buf EXCEPT !.mem = @ \o slice, !.head = @ + Len(slice)]

written(buf) == buf.head

\* <VarInt<T> as PacketEncode>::encode
VarInt_encode(v, buf) == EncodeBuf_write_slice(buf, VarIntType_encode(v))

---------------------------------------------------------------------------
(* Inputs *)

MaxTrail == 2     \* most bytes that follow an encoding in a source
MaxCont  == 12    \* most leading continuation bytes of a raw source

\* Bit patterns of width w: zero, every single bit, every run of low ones.
PatternsOf(w) ==
    {{}} \cup {{h} : h \in 0..(w - 1)} \cup {0..h : h \in 0..(w - 1)}

Values ==
    UNION {{[ty |-> t, bits |-> b] : b \in PatternsOf(BITS(t))} : t \in VarIntTypes}

TrailBytes == {7, 135}

RECURSIVE SeqsOfLen(_, _)
SeqsOfLen(S, n) ==
    IF n = 0 THEN {<<>>}
    ELSE {Append(q, x) : q \in SeqsOfLen(S, n - 1), x \in S}

SeqsUpTo(S, n) == UNION {SeqsOfLen(S, k) : k \in 0..n}

Trails == SeqsUpTo(TrailBytes, MaxTrail)

RECURSIVE Repeat(_, _)
Repeat(b, n) == IF n = 0 THEN <<>> ELSE <<b>> \o Repeat(b, n - 1)

\* Raw sources: a run of bytes that all carry the continuation bit, then a
\* tail.
RawTails == {<<>>, <<0>>, <<127>>, <<1, 5>>, <<15, 3, 4, 5, 6, 7>>}
RawSources ==
    {Repeat(c, n) \o t : c \in {128, 255}, n \in 0..MaxCont, t \in RawTails}

\* The values of the variables a scenario does not use.
NoArr  == [pc |-> "idle"]
NoCell == "none"
NoLast == [op |-> "none"]
NoSrc  == [kind |-> "none", bytes |-> <<>>, trail |-> <<>>]
NoBuf  == EncodeBuf_new(0)
NoVal  == [ty |-> "u32", bits |-> {}]
NoPrefix == "none"

---------------------------------------------------------------------------
(* The VarInt scenario: size, encode, build a cursor, decode *)

Init ==
    /\ phase = "start"
    /\ val \in Values
    /\ prefix = NoPrefix
    /\ elen = "none"
    /\ ebuf = NoBuf
    /\ eres = "none"
    /\ source = NoSrc
    /\ di = DecodeIter_from(<<>>)
    /\ last = NoLast
    /\ arr = NoArr
    /\ cell = NoCell /\ thr = <<>> /\ ret = NoLast /\ wins = <<>>

\* encode_len, then EncodeBuf::new(encode_len)
SizeIt ==
    /\ phase = "start"
    /\ elen' = VarIntType_encode_len(val)
    /\ ebuf' = EncodeBuf_new(VarIntType_encode_len(val))
    /\ phase' = "sized"
    /\ UNCHANGED <<val, prefix, eres, source, di, last, arrayVars, cellVars>>

\* <VarInt<T> as PacketEncode>::encode into the buffer
Encode ==
    /\ phase = "sized"
    /\ \E o \in EncodeOutcomes(val) :
          /\ eres' = o
          /\ ebuf' = IF o = "panic" THEN ebuf ELSE VarInt_encode(val, ebuf)
    /\ phase' = "encoded"
    /\ UNCHANGED <<val, prefix, elen, source, di, last, arrayVars, cellVars>>

\* DecodeIter::from over the encoded bytes followed by a trail
FromEncoded ==
    /\ phase = "encoded" /\ eres # "panic"
    /\ \E t \in Trails :
          /\ source' = [kind |-> "encoded", bytes |-> ebuf.mem \o t, trail |-> t]
          /\ di' = DecodeIter_from(ebuf.mem \o t)
    /\ phase' = "ready"
    /\ UNCHANGED <<codecVars, last, arrayVars, cellVars>>

\* DecodeIter::from over the encoded bytes without the final one
FromTruncated ==
    /\ phase = "encoded" /\ eres # "panic"
    /\ LET cut == SubSeq(ebuf.mem, 1, Len(ebuf.mem) - 1) IN
          /\ source' = [kind |-> "truncated", bytes |-> cut, trail |-> <<>>]
          /\ di' = DecodeIter_from(cut)
    /\ phase' = "ready"
    /\ UNCHANGED <<codecVars, last, arrayVars, cellVars>>

\* DecodeIter::from over bytes that no encoder produced
FromRaw ==
    /\ phase = "start" /\ val.bits = {}
    /\ \E r \in RawSources :
          /\ source' = [kind |-> "raw", bytes |-> r, trail |-> <<>>]
          /\ di' = DecodeIter_from(r)
    /\ phase' = "ready"
    /\ UNCHANGED <<codecVars, last, arrayVars, cellVars>>

\* VarInt::<T>::decode on the cursor
Decode ==
    /\ phase = "ready"
    /\ LET r == VarInt_decode(val.ty, di) IN
          /\ last' = [op |-> "VarInt::decode", kind |-> r.kind, value |-> r.value,
                      taken |-> r.taken, shifts |-> r.shifts, head0 |-> di.head]
          /\ di' = r.d
    /\ phase' = "decoded"
    /\ UNCHANGED <<codecVars, source, arrayVars, cellVars>>

Next == SizeIt \/ Encode \/ FromEncoded \/ FromTruncated \/ FromRaw \/ Decode

Spec == Init /\ [][Next]_vars

---------------------------------------------------------------------------
(* What the wire format and the contracts say, stated apart from the code *)

\* ceil(bit_width / 7)
CeilDiv7(w) == (w + 6) \div 7

\* The 7-bit groups of a pattern, least significant first, up to the highest
\* group that is not zero (one group for zero); the continuation bit on every
\* byte but the last.
TopGroup(bits) ==
    IF bits = {} THEN 0
    ELSE (CHOOSE h \in bits : \A k \in bits : k <= h) \div 7

WireFormat(bits) ==
    [k \in 1..(TopGroup(bits) + 1) |->
        SumPow2({j \in 0..6 : 7 * (k - 1) + j \in bits})
        + (IF k <= TopGroup(bits) THEN CONTINUE_BIT ELSE 0)]

\* Number of leading bytes of a source that carry the continuation bit.
RECURSIVE LeadingCont(_)
LeadingCont(bytes) ==
    IF bytes = <<>> \/ ByteAnd(Head(bytes), CONTINUE_BIT) = 0 THEN 0
    ELSE 1 + LeadingCont(Tail(bytes))

EncodingLen == Len(source.bytes) - Len(source.trail)

\* C1: decoding a cursor built over exactly the bytes encode produced for
\* VarInt(v) returns Ok(VarInt(v)).
C1_RoundTrip ==
    (phase = "decoded" /\ source.kind = "encoded" /\ source.trail = <<>>)
        => (last.kind = "Ok" /\ last.value = val)

\* C2: encode_len(v) is the number of bytes encode(v) writes: encoding into
\* EncodeBuf::new(encode_len(v)) ends with written() == len() and nothing is
\* stored past the capacity, of the buffer or of the scratch array.
C2_ExactSize ==
    phase = "encoded"
        => /\ eres = "ok"
           /\ elen = Len(VarIntType_encode(val))
           /\ written(ebuf) = ebuf.len
           /\ Len(ebuf.mem) <= ebuf.len

\* C3: a successful VarInt decode over a k-byte encoding followed by further
\* bytes advances consumed() by exactly k, and the next read returns the byte
\* right after the encoding.
C3_CursorAdvance ==
    (phase = "decoded" /\ source.kind = "encoded" /\ source.trail # <<>>
        /\ last.kind = "Ok")
        => /\ consumed(di) - last.head0 = EncodingLen
           /\ DecodeIter_read(di).ok
           /\ DecodeIter_read(di).bytes = <<source.trail[1]>>

\* C7: the encoding of every value is the 7-bit groups of its bit pattern,
\* least significant first, continuation bit on all but the last byte; so 0
\* is 00, 127 is 7F, 128 is 80 01 and the 32-bit -1 is FF FF FF FF 0F.
C7_WireFormat ==
    phase = "encoded"
        => /\ eres = "ok"
           /\ ebuf.mem = WireFormat(val.bits)
           /\ (val.bits = {} => ebuf.mem = <<0>>)
           /\ (val.bits = 0..6 => ebuf.mem = <<127>>)
           /\ (val.bits = {7} => ebuf.mem = <<128, 1>>)
           /\ (val = [ty |-> "i32", bits |-> 0..31]
                 => ebuf.mem = <<255, 255, 255, 255, 15>>)

\* C8: decoding the encoding of a value with its final byte removed fails
\* with Incomplete and returns no value.
C8_Truncation ==
    (phase = "decoded" /\ source.kind = "truncated") => last.kind = Incomplete

C8_Witness ==
    /\ phase = "decoded" /\ source.kind = "truncated"
    /\ Len(source.bytes) = 4 /\ val.ty = "i32"
    /\ last.kind = Incomplete

\* C9: VarInt decode ends on every source; while accumulating it takes at
\* most ceil(bit_width/7)+1 bytes, shifts every group by less than the bit
\* width, and answers TooLong when more than ceil(bit_width/7)+1 leading
\* bytes carry the continuation bit.
C9_OverLong ==
    phase = "decoded"
        => /\ last.kind \in {"Ok", Incomplete, TooLong}
           /\ last.taken <= CeilDiv7(BITS(val.ty)) + 1
           /\ \A sh \in last.shifts : sh < BITS(val.ty)
           /\ (LeadingCont(source.bytes) > CeilDiv7(BITS(val.ty)) + 1
                 => last.kind = TooLong)

C9_Witness ==
    /\ phase = "decoded" /\ source.kind = "raw" /\ val.ty = "u64"
    /\ LeadingCont(source.bytes) = CeilDiv7(BITS(val.ty)) + 2
    /\ last.kind = TooLong
    /\ 63 \in last.shifts

\* C18: every store of the encode loop into the scratch array lands at an
\* index i < size_of::<T>() + 1 (5 for the 32-bit types, 9 for the 64-bit
\* ones), whatever the value.
C18_ScratchBound ==
    phase = "encoded"
        => \A k \in 1..Len(VarIntType_encode(val)) : k - 1 < ScratchLen(val.ty)

---------------------------------------------------------------------------
(* The cursor scenario: any sequence of DecodeIter operations on one source *)

MaxSrc   == 4     \* most bytes of a cursor source
MaxCount == 3     \* largest count / N / buffer length asked of the cursor

CursorBytes   == {1, 2, 3}
CursorSources == SeqsUpTo(CursorBytes, MaxSrc)

InitCursor ==
    /\ phase = "cursor"
    /\ source \in {[kind |-> "raw", bytes |-> b, trail |-> <<>>] : b \in CursorSources}
    /\ di = DecodeIter_from(source.bytes)
    /\ last = NoLast
    /\ val = NoVal /\ prefix = NoPrefix
    /\ elen = "none" /\ ebuf = NoBuf /\ eres = "none"
    /\ arr = NoArr
    /\ cell = NoCell /\ thr = <<>> /\ ret = NoLast /\ wins = <<>>

\* What a cursor call leaves behind: the call, its result, and the cursor
\* as it was before.
CursorCall(op, count, r) ==
    /\ last' = [op |-> op, count |-> count, ok |-> r.ok, err |-> r.err,
                bytes |-> r.bytes, head0 |-> di.head, iter0 |-> di.iter]
    /\ di' = r.d
    /\ UNCHANGED <<phase, source, codecVars, arrayVars, cellVars>>

CurRead ==
    /\ phase = "cursor"
    /\ CursorCall("read", 1, DecodeIter_read(di))

CurReadVec ==
    /\ phase = "cursor"
    /\ \E count \in 0..MaxCount :
          CursorCall("read_vec", count, DecodeIter_read_vec(di, count))

CurReadArr ==
    /\ phase = "cursor"
    /\ \E N \in 0..MaxCount :
          CursorCall("read_arr", N, DecodeIter_read_arr(di, N))

CurReadBuf ==
    /\ phase = "cursor"
    /\ \E len \in 0..MaxCount :
          CursorCall("read_buf", len, DecodeIter_read_buf(di, len))

CurSkip ==
    /\ phase = "cursor"
    /\ \E count \in 0..MaxCount :
          CursorCall("skip", count, DecodeIter_skip(di, count))

\* <DecodeIter as Iterator>::next
CurNext ==
    /\ phase = "cursor"
    /\ LET n == DecodeIter_next(di) IN
          CursorCall("next", 1,
                     [ok |-> n.some, err |-> "",
                      bytes |-> IF n.some THEN <<n.b>> ELSE <<>>, d |-> n.d])

NextCursor ==
    CurRead \/ CurReadVec \/ CurReadArr \/ CurReadBuf \/ CurSkip \/ CurNext

SpecCursor == InitCursor /\ [][NextCursor]_vars

\* Bytes taken from the underlying source so far.
Pulled == Len(source.bytes) - Len(di.iter)

\* C10: read, read_vec, read_arr, read_buf and skip called with at least the
\* requested number of bytes left succeed, hand out exactly the next
\* requested bytes in source order, and advance consumed() by exactly the
\* requested count; no operation ever decreases consumed().
C10_CursorSuccess ==
    /\ (last.op \in {"read", "read_vec", "read_arr", "read_buf", "skip"}
          /\ Len(last.iter0) >= last.count)
        => /\ last.ok
           /\ last.op # "skip" => last.bytes = SubSeq(last.iter0, 1, last.count)
           /\ di.iter = SubSeq(last.iter0, last.count + 1, Len(last.iter0))
           /\ consumed(di) = last.head0 + last.count
    /\ last.op # "none" => consumed(di) >= last.head0

C10_Witness ==
    /\ last.op = "read_vec" /\ last.count = 2 /\ last.ok
    /\ last.head0 = 1 /\ consumed(di) = 3 /\ Len(di.iter) = 1
    /\ last.bytes = <<2, 3>>

\* C11: read_vec, read_buf and skip called with fewer bytes left than asked
\* for fail with Incomplete, and consumed() has grown by the number of bytes
\* the call took from the source, so that consumed() is still the number of
\* bytes taken from the underlying source.
C11_CursorFailure ==
    (last.op \in {"read_vec", "read_buf", "skip"}
        /\ Len(last.iter0) < last.count)
        => /\ ~last.ok /\ last.err = Incomplete
           /\ consumed(di) = last.head0 + (Len(last.iter0) - Len(di.iter))
           /\ consumed(di) = Pulled

---------------------------------------------------------------------------
(* Fixed-array decode: src/decode/array.rs, one action per step of the code *)

MaxN    == 4      \* largest array length N
MaxBody == 7      \* most bytes that follow the first byte of an array source

\* The element types T the array is instantiated with.
ElemTypes == {"bool", "VarInt<u32>"}

\* <bool as PacketDecode>::decode from the outcome r of `iter.read()` on.
bool_decode(r) ==
    [ok |-> r.ok, err |-> r.err, d |-> r.d,
     value |-> IF r.ok THEN r.bytes[1] # 0 ELSE FALSE]

\* The outcome r of VarInt::<u32>::decode as the outcome of T::decode.
VarInt_u32_decode(r) ==
    [ok |-> r.kind = "Ok", err |-> IF r.kind = "Ok" THEN "" ELSE r.kind,
     d |-> r.d, value |-> r.value]

\* T::decode on the cursor: <bool as PacketDecode>::decode is one read,
\* VarInt::<u32>::decode is the VarInt decoder.
ElemDecode(T, d) ==
    IF T = "bool"
    THEN bool_decode(DecodeIter_read(d))
    ELSE VarInt_u32_decode(VarInt_decode("u32", d))

\* `*VarInt::<u32>::decode(iter)? as usize`
AsUsize(v) == SumPow2(v.bits)

BodyBytes    == {1, 129}
ArraySources ==
    {<<l>> \o b : l \in 0..(MaxN + 1), b \in SeqsUpTo(BodyBytes, MaxBody)}

\* The cleanup loop written `for j in 0..=i`.
CleanupRange_Inclusive(i) == 0..i

\* `for j in 0..i`
CleanupRange(i) == 0..(i - 1)

NoResult == [kind |-> "none"]

InitArray ==
    /\ phase = "array"
    /\ source \in {[kind |-> "raw", bytes |-> b, trail |-> <<>>] : b \in ArraySources}
    /\ di = DecodeIter_from(source.bytes)
    /\ last = NoLast
    /\ val = NoVal /\ prefix = NoPrefix
    /\ elen = "none" /\ ebuf = NoBuf /\ eres = "none"
    /\ \E n \in 0..MaxN, T \in ElemTypes :
          arr = [pc |-> "start", N |-> n, T |-> T, i |-> 0, j |-> 0,
                 slots |-> [k \in 0..(n - 1) |-> "uninit"],
                 drops |-> [k \in 0..(n - 1) |-> 0],
                 made |-> 0, err |-> NoResult, cause |-> NoResult,
                 head1 |-> 0, result |-> NoResult]
    /\ cell = NoCell /\ thr = <<>> /\ ret = NoLast /\ wins = <<>>

arrayRest == <<phase, source, last, codecVars, cellVars>>

\* The length field: Length on a failed VarInt decode, BadLength when the
\* length is not N, else the uninitialised array and the loop.
ArrLength ==
    /\ phase = "array" /\ arr.pc = "start"
    /\ LET r == VarInt_decode("u32", di) IN
          /\ di' = r.d
          /\ arr' =
               IF r.kind # "Ok"
               THEN [arr EXCEPT !.pc = "done", !.head1 = r.d.head,
                                !.result = [kind |-> "Length", err |-> r.kind]]
               ELSE IF AsUsize(r.value) # arr.N
               THEN [arr EXCEPT !.pc = "done", !.head1 = r.d.head,
                                !.result = [kind |-> "BadLength",
                                            len |-> AsUsize(r.value),
                                            expected |-> arr.N]]
               ELSE [arr EXCEPT !.pc = "loop", !.head1 = r.d.head]
    /\ UNCHANGED arrayRest

\* One turn of `for i in 0..N`: T::decode, then the write into slot i, or
\* the error wrapped as Item { index : i, err } and the way to the cleanup.
ArrItem ==
    /\ phase = "array" /\ arr.pc = "loop" /\ arr.i < arr.N
    /\ LET e == ElemDecode(arr.T, di) IN
          /\ di' = e.d
          /\ arr' =
               IF e.ok
               THEN [arr EXCEPT !.slots[arr.i] = "init", !.made = @ + 1,
                                !.i = @ + 1]
               ELSE [arr EXCEPT !.pc = "cleanup", !.j = 0,
                                !.err = [kind |-> "Item", index |-> arr.i,
                                         err |-> e.err],
                                !.cause = [index |-> arr.i, err |-> e.err]]
    /\ UNCHANGED arrayRest

\* One turn of the cleanup loop: assume_init_drop on slot j.  Dropping a slot
\* that holds no value is undefined behaviour ("ub").
ArrDrop ==
    /\ phase = "array" /\ arr.pc = "cleanup"
    /\ arr.j \in CleanupRange(arr.i)
    /\ arr' = [arr EXCEPT
                 !.slots = IF arr.j \in DOMAIN arr.slots
                           THEN [@ EXCEPT ![arr.j] =
                                    IF @ = "init" THEN "dropped" ELSE "ub"]
                           ELSE @,
                 !.drops = IF arr.j \in DOMAIN arr.drops
                           THEN [@ EXCEPT ![arr.j] = @ + 1]
                           ELSE @,
                 !.j = @ + 1]
    /\ UNCHANGED <<di, arrayRest>>

\* `return Err(err)` after the cleanup loop
ArrReturnErr ==
    /\ phase = "array" /\ arr.pc = "cleanup"
    /\ arr.j \notin CleanupRange(arr.i)
    /\ arr' = [arr EXCEPT !.pc = "done", !.result = arr.err]
    /\ UNCHANGED <<di, arrayRest>>

\* `Ok(array_assume_init(arr))` after the loop: every slot is read and moved
\* to the caller.
ArrReturnOk ==
    /\ phase = "array" /\ arr.pc = "loop" /\ arr.i = arr.N
    /\ arr' = [arr EXCEPT !.pc = "done", !.result = [kind |-> "Ok"],
                          !.slots = [k \in DOMAIN @ |->
                                       IF @[k] = "init" THEN "moved" ELSE "ub"]]
    /\ UNCHANGED <<di, arrayRest>>

NextArray == ArrLength \/ ArrItem \/ ArrDrop \/ ArrReturnErr \/ ArrReturnOk

SpecArray == InitArray /\ [][NextArray]_vars

RECURSIVE SumOver(_, _)
SumOver(f, S) ==
    IF S = {} THEN 0
    ELSE LET k == CHOOSE x \in S : TRUE IN f[k] + SumOver(f, S \ {k})

\* C4: when element i is the first whose decode fails, the slots 0..i-1 are
\* each destructed exactly once, no slot from i on is destructed or read, the
\* error returned is Item{index: i, err: cause} as it was before the cleanup,
\* and constructions and destructions of T balance.
C4_PartialCleanup ==
    /\ \A k \in DOMAIN arr.slots : arr.slots[k] # "ub"
    /\ (arr.pc = "done" /\ arr.result.kind = "Item")
        => /\ arr.cause.index = arr.made
           /\ arr.result = [kind |-> "Item", index |-> arr.cause.index,
                            err |-> arr.cause.err]
           /\ \A k \in 0..(arr.N - 1) :
                /\ k < arr.cause.index
                     => (arr.drops[k] = 1 /\ arr.slots[k] = "dropped")
                /\ k >= arr.cause.index
                     => (arr.drops[k] = 0 /\ arr.slots[k] = "uninit")
           /\ SumOver(arr.drops, DOMAIN arr.drops) = arr.made

C4_Witness ==
    /\ arr.pc = "done" /\ arr.N = 4 /\ arr.T = "bool"
    /\ arr.result = [kind |-> "Item", index |-> 2, err |-> Incomplete]
    /\ arr.made = 2 /\ arr.drops = [k \in 0..3 |-> IF k < 2 THEN 1 ELSE 0]

\* The bytes after the first one of the source: the elements that follow a
\* one-byte length field.
ArrayBody == SubSeq(source.bytes, 2, Len(source.bytes))

\* C12: decoding [bool; N] from a one-byte VarInt length L # N followed by L
\* one-byte elements fails with BadLength{L, N}, consumes the length field and
\* no more than the L elements after it, and consumed() is the number of bytes
\* taken from the source.
C12_LengthMismatch ==
    (arr.pc = "done" /\ arr.T = "bool"
        /\ source.bytes[1] # arr.N /\ Len(ArrayBody) = source.bytes[1])
        => /\ arr.result = [kind |-> "BadLength", len |-> source.bytes[1],
                            expected |-> arr.N]
           /\ consumed(di) >= 1
           /\ consumed(di) <= 1 + source.bytes[1]
           /\ consumed(di) = Pulled

---------------------------------------------------------------------------
(* Protocol-state cell: src/meta.rs, one action per atomic operation *)

NThreads == 2     \* threads that share the cell

Threads == 1..NThreads

\* enum PacketState, #[repr(u8)]
PacketState == {"Handshake", "Status", "Login", "Config", "Play"}

\* `state as u8`: the ordinal
Ordinal(st) ==
    CASE st = "Handshake" -> 0
      [] st = "Status"    -> 1
      [] st = "Login"     -> 2
      [] st = "Config"    -> 3
      [] st = "Play"      -> 4

\* transmute::<u8, PacketState>: a byte that is no ordinal gives no state
\* (undefined behaviour).
Transmute(b) ==
    CASE b = 0 -> "Handshake"
      [] b = 1 -> "Status"
      [] b = 2 -> "Login"
      [] b = 3 -> "Config"
      [] b = 4 -> "Play"
      [] OTHER -> "invalid"

\* AtomicU8::compare_exchange with `new` stored whatever the cell holds.
AtomicU8_compare_exchange_Blind(b, current, new) ==
    [ok |-> TRUE, prev |-> b, cell |-> new]

\* AtomicU8::compare_exchange on a cell holding b: the result and the cell
\* after it.
AtomicU8_compare_exchange(b, current, new) ==
    IF b = current
    THEN [ok |-> TRUE, prev |-> b, cell |-> new]
    ELSE [ok |-> FALSE, prev |-> b, cell |-> b]

\* `val as u8` with the ordinals counted from one.
StoreByte_FromOne(st) == Ordinal(st) + 1

\* The byte store and swap put into the cell: `val as u8`
StoreByte(st) == Ordinal(st)

\* The update functions handed to fetch_update: the protocol's next state
\* (None where there is none), and always Some(Play).
UpdateFns == {"advance", "play"}
None == "None"
ApplyFn(f, st) ==
    IF f = "play" THEN "Play"
    ELSE CASE st = "Handshake" -> "Login"
           [] st = "Login"     -> "Config"
           [] st = "Config"    -> "Play"
           [] OTHER            -> None

\* The ghost count of CAS wins: a win away from `current` counts for it, and
\* a cell that becomes c starts c afresh.
WinsAfter(w, before, after, casWin, current) ==
    LET w1 == IF casWin THEN [w EXCEPT ![current] = @ + 1] ELSE w IN
    IF after # before /\ after \in DOMAIN w1
    THEN [w1 EXCEPT ![after] = 0] ELSE w1

Idle == [pc |-> "idle"]

\* AtomicPacketState::new(state), and the threads that share the cell
InitCell ==
    /\ phase = "cell"
    /\ \E st \in PacketState : cell = Ordinal(st)
    /\ thr = [t \in Threads |-> Idle]
    /\ ret = NoLast
    /\ wins = [b \in 0..4 |-> 0]
    /\ source = NoSrc /\ di = DecodeIter_from(<<>>) /\ last = NoLast
    /\ val = NoVal /\ prefix = NoPrefix
    /\ elen = "none" /\ ebuf = NoBuf /\ eres = "none"
    /\ arr = NoArr

\* The same cell, with the compare-exchange wins counted.
InitCas ==
    /\ phase = "cas"
    /\ \E st \in PacketState : cell = Ordinal(st)
    /\ thr = [t \in Threads |-> Idle]
    /\ ret = NoLast
    /\ wins = [b \in 0..4 |-> 0]
    /\ source = NoSrc /\ di = DecodeIter_from(<<>>) /\ last = NoLast
    /\ val = NoVal /\ prefix = NoPrefix
    /\ elen = "none" /\ ebuf = NoBuf /\ eres = "none"
    /\ arr = NoArr

cellRest == <<phase, source, di, last, codecVars, arrayVars>>

\* A thread that is not inside fetch_update makes the call.  The calls below
\* are one atomic instruction each, so the state after a call is the same
\* whichever of the free threads made it.
SomeCaller == phase \in {"cell", "cas"} /\ \E t \in Threads : thr[t] = Idle

Counted(w) == IF phase = "cas" THEN w ELSE wins

\* AtomicPacketState::load
Load ==
    /\ SomeCaller
    /\ ret' = [op |-> "load", ok |-> TRUE, val |-> Transmute(cell),
               before |-> cell]
    /\ UNCHANGED <<cell, thr, wins, cellRest>>

\* AtomicPacketState::store
Store ==
    /\ SomeCaller
    /\ \E st \in PacketState :
          /\ cell' = StoreByte(st)
          /\ ret' = [op |-> "store", ok |-> TRUE, val |-> st, before |-> cell]
          /\ wins' = Counted(WinsAfter(wins, cell, StoreByte(st), FALSE, cell))
    /\ UNCHANGED <<thr, cellRest>>

\* AtomicPacketState::swap
Swap ==
    /\ SomeCaller
    /\ \E st \in PacketState :
          /\ cell' = StoreByte(st)
          /\ ret' = [op |-> "swap", ok |-> TRUE, val |-> Transmute(cell),
                     before |-> cell]
          /\ wins' = Counted(WinsAfter(wins, cell, StoreByte(st), FALSE, cell))
    /\ UNCHANGED <<thr, cellRest>>

\* What compare_exchange and compare_exchange_weak both do: the strong
\* AtomicU8::compare_exchange, the byte of either result transmuted.
CasCall(op, current, new) ==
    LET r == AtomicU8_compare_exchange(cell, Ordinal(current), Ordinal(new)) IN
    /\ cell' = r.cell
    /\ ret' = [op |-> op, current |-> current, new |-> new, ok |-> r.ok,
               val |-> Transmute(r.prev), before |-> cell]
    /\ wins' = Counted(WinsAfter(wins, cell, r.cell, r.ok /\ new # current,
                                 Ordinal(current)))

\* AtomicPacketState::compare_exchange
CompareExchange ==
    /\ SomeCaller
    /\ \E current \in PacketState, new \in PacketState :
          CasCall("compare_exchange", current, new)
    /\ UNCHANGED <<thr, cellRest>>

\* AtomicPacketState::compare_exchange_weak
CompareExchangeWeak ==
    /\ SomeCaller
    /\ \E current \in PacketState, new \in PacketState :
          CasCall("compare_exchange_weak", current, new)
    /\ UNCHANGED <<thr, cellRest>>

\* AtomicPacketState::fetch_update, the first load of AtomicU8::fetch_update
FetchUpdateLoad(t) ==
    /\ phase = "cell" /\ thr[t] = Idle
    /\ \E f \in UpdateFns :
          thr' = [thr EXCEPT ![t] = [pc |-> "fetch_update", f |-> f, prev |-> cell]]
    /\ UNCHANGED <<cell, ret, wins, cellRest>>

\* The turn of the loop with a plain store of f(prev) in place of the
\* compare-exchange.
FetchUpdateStep_Store(t) ==
    /\ phase = "cell" /\ thr[t].pc = "fetch_update"
    /\ LET prev == thr[t].prev
           next == ApplyFn(thr[t].f, Transmute(prev))
       IN  /\ ret' = [op |-> "fetch_update", f |-> thr[t].f, ok |-> next # None,
                      val |-> Transmute(prev), before |-> cell]
           /\ thr' = [thr EXCEPT ![t] = Idle]
           /\ cell' = IF next = None THEN cell ELSE StoreByte(next)
    /\ UNCHANGED <<wins, cellRest>>

\* One turn of the loop of AtomicU8::fetch_update: f(prev) is None and the
\* call returns Err(prev), or the compare-exchange of prev for f(prev)
\* succeeds and the call returns Ok(prev), or it fails and prev is renewed.
FetchUpdateStep(t) ==
    /\ phase = "cell" /\ thr[t].pc = "fetch_update"
    /\ LET prev == thr[t].prev
           next == ApplyFn(thr[t].f, Transmute(prev))
       IN  IF next = None
           THEN /\ ret' = [op |-> "fetch_update", f |-> thr[t].f, ok |-> FALSE,
                           val |-> Transmute(prev), before |-> cell]
                /\ thr' = [thr EXCEPT ![t] = Idle]
                /\ UNCHANGED cell
           ELSE LET r == AtomicU8_compare_exchange(cell, prev, StoreByte(next)) IN
                IF r.ok
                THEN /\ cell' = r.cell
                     /\ ret' = [op |-> "fetch_update", f |-> thr[t].f, ok |-> TRUE,
                                val |-> Transmute(r.prev), before |-> cell]
                     /\ thr' = [thr EXCEPT ![t] = Idle]
                ELSE /\ thr' = [thr EXCEPT ![t].prev = r.prev]
                     /\ UNCHANGED <<cell, ret>>
    /\ UNCHANGED <<wins, cellRest>>

NextCell ==
    \/ Load \/ Store \/ Swap \/ CompareExchange \/ CompareExchangeWeak
    \/ \E t \in Threads : FetchUpdateLoad(t) \/ FetchUpdateStep(t)

SpecCell == InitCell /\ [][NextCell]_vars

\* Threads that race on the cell with the one-instruction calls only.
NextCas == Load \/ Store \/ Swap \/ CompareExchange \/ CompareExchangeWeak

SpecCas == InitCas /\ [][NextCas]_vars

\* C5: every compare_exchange / compare_exchange_weak call returns the value
\* the cell held right before it took effect; it returns Ok exactly when that
\* value is its `current`, and then the cell holds `new`; a failed call
\* leaves the cell as it was; and of the calls with the same `current` and
\* another `new` one wins each time the cell has become `current`.
C5_CompareExchange ==
    /\ ret.op \in {"compare_exchange", "compare_exchange_weak"}
        => /\ ret.val = Transmute(ret.before)
           /\ ret.ok <=> ret.val = ret.current
           /\ ret.ok => cell = Ordinal(ret.new)
           /\ ~ret.ok => cell = ret.before
    /\ \A b \in DOMAIN wins : wins[b] <= 1

C5_Witness ==
    /\ ret.op = "compare_exchange_weak" /\ ~ret.ok
    /\ ret.current = "Handshake" /\ ret.new = "Login" /\ ret.val = "Login"
    /\ cell = Ordinal("Login") /\ wins[Ordinal("Handshake")] = 1

\* C6: the byte in the cell is always the ordinal of one of the five states,
\* so every value a call hands out is a PacketState.
C6_CellValid ==
    /\ cell \in 0..4
    /\ Transmute(cell) \in PacketState
    /\ ret.op # "none" => ret.val \in PacketState

C6_Witness ==
    /\ cell = 4 /\ ret.op = "swap" /\ ret.val = "Config"
    /\ \E t \in Threads : thr[t].pc = "fetch_update"

\* C17: a fetch_update(f) call returns Err(prev) and leaves the cell alone
\* when f(prev) is None for the value prev it observed last; otherwise it
\* returns Ok(prev) where prev is the value the cell held right before the
\* store and the value stored is f(prev); a turn of its loop that does not
\* return stores nothing, so f's result reaches the cell once, however often
\* f was called.
C17_FetchUpdate ==
    [][\A t \in Threads :
          (thr[t].pc = "fetch_update" /\ thr'[t] # thr[t])
              => IF thr'[t] = Idle
                 THEN /\ ret'.op = "fetch_update" /\ ret'.f = thr[t].f
                      /\ ret'.val = Transmute(thr[t].prev)
                      /\ IF ret'.ok
                         THEN /\ ret'.val = Transmute(cell)
                              /\ ApplyFn(ret'.f, ret'.val) # None
                              /\ cell' = Ordinal(ApplyFn(ret'.f, ret'.val))
                         ELSE /\ ApplyFn(ret'.f, ret'.val) = None
                              /\ cell' = cell
                 ELSE /\ cell' = cell /\ ret' = ret
                      /\ thr'[t].pc = "fetch_update"
                      /\ thr'[t].f = thr[t].f
                      /\ thr[t].prev # cell /\ thr'[t].prev = cell]_vars

\* A fetch_update has stored its result while another thread's fetch_update
\* still holds the value it observed before that store.
C17_Witness ==
    /\ ret.op = "fetch_update" /\ ret.ok
    /\ cell = Ordinal(ApplyFn(ret.f, ret.val))
    /\ \E u \in Threads :
          /\ thr[u].pc = "fetch_update"
          /\ thr[u].prev = Ordinal(ret.val) /\ thr[u].prev # cell

---------------------------------------------------------------------------
(* The composite decoders: String, Vec<T> and the prefixed packet *)

\* The number of bytes a UTF-8 sequence starting with b takes; 0 for a byte
\* that starts none (a continuation byte, C0, C1, F5 and above).
Utf8Width(b) ==
    IF b < 128 THEN 1
    ELSE IF b \in 194..223 THEN 2
    ELSE IF b \in 224..239 THEN 3
    ELSE IF b \in 240..244 THEN 4
    ELSE 0

\* The range of the byte after the lead byte b: no overlong forms, no
\* surrogates, nothing above U+10FFFF.
Utf8Second(b) ==
    IF b = 224 THEN 160..191
    ELSE IF b = 237 THEN 128..159
    ELSE IF b = 240 THEN 144..191
    ELSE IF b = 244 THEN 128..143
    ELSE 128..191

\* The validation of String::from_utf8.
RECURSIVE from_utf8_ok(_)
from_utf8_ok(s) ==
    IF s = <<>> THEN TRUE
    ELSE LET w == Utf8Width(s[1]) IN
         /\ w # 0
         /\ Len(s) >= w
         /\ (w >= 2) => (s[2] \in Utf8Second(s[1]))
         /\ \A k \in 3..w : s[k] \in 128..191
         /\ from_utf8_ok(SubSeq(s, w + 1, Len(s)))

\* String::decode from the outcome r of `iter.read_vec(length)` on.
String_decode_bytes(r) ==
    IF ~r.ok
    THEN [kind |-> "Incomplete", err |-> r.err, value |-> <<>>, d |-> r.d]
    ELSE IF from_utf8_ok(r.bytes)
    THEN [kind |-> "Ok", err |-> "", value |-> r.bytes, d |-> r.d]
    ELSE [kind |-> "Utf8", err |-> "Utf8", value |-> <<>>, d |-> r.d]

\* String::decode from the outcome l of the length's VarInt::decode on.
String_decode_length(l) ==
    IF l.kind # "Ok"
    THEN [kind |-> "Length", err |-> l.kind, value |-> <<>>, d |-> l.d]
    ELSE String_decode_bytes(DecodeIter_read_vec(l.d, AsUsize(l.value)))

\* <String as PacketDecode>::decode: the VarInt<u32> length, read_vec, then
\* the validation.  A String is held as its bytes.
String_decode(d) == String_decode_length(VarInt_decode("u32", d))

\* A call of T::decode for element i and the cursor it left behind.
Try(i, r) == [index |-> i, ok |-> r.ok, err |-> r.err, d |-> r.d]

\* The loop that stores the error of a failed element and goes on to the
\* next one.
RECURSIVE VecLoop_GoOn(_, _, _, _, _)
VecLoop_GoOn(T, d, i, length, tries) ==
    IF i >= length
    THEN [kind |-> "Ok", index |-> length, err |-> "", tries |-> tries, d |-> d]
    ELSE LET r == ElemDecode(T, d)
             rest == VecLoop_GoOn(T, r.d, i + 1, length,
                                  Append(tries, Try(i, r))) IN
         IF r.ok THEN rest
         ELSE [kind |-> "Item", index |-> i, err |-> r.err,
               tries |-> rest.tries, d |-> rest.d]

\* `for i in 0..length { vec.push(T::decode(iter).map_err(..)?) }`: `tries`
\* lists the calls of T::decode in the order they were made.  VecTurn is
\* turn i from the outcome r of T::decode on.
RECURSIVE VecLoop(_, _, _, _, _)
RECURSIVE VecTurn(_, _, _, _, _)
VecLoop(T, d, i, length, tries) ==
    IF i >= length
    THEN [kind |-> "Ok", index |-> length, err |-> "", tries |-> tries, d |-> d]
    ELSE VecTurn(T, i, length, tries, ElemDecode(T, d))

VecTurn(T, i, length, tries, r) ==
    IF r.ok
    THEN VecLoop(T, r.d, i + 1, length, Append(tries, Try(i, r)))
    ELSE [kind |-> "Item", index |-> i, err |-> r.err,
          tries |-> Append(tries, Try(i, r)), d |-> r.d]

\* Vec::decode from the outcome l of the count's VarInt::decode on.
Vec_decode_length(T, l) ==
    IF l.kind # "Ok"
    THEN [kind |-> "Length", index |-> 0, err |-> l.kind, tries |-> <<>>,
          d |-> l.d]
    ELSE VecLoop(T, l.d, 0, AsUsize(l.value), <<>>)

\* <Vec<T> as PacketDecode>::decode
Vec_decode(T, d) == Vec_decode_length(T, VarInt_decode("u32", d))

\* The packet types: a declared ID and the type whose decoder is the
\* unprefixed decoder.
Prefixes    == {1, 2}
PacketTypes == {[PREFIX |-> p, T |-> T] : p \in Prefixes, T \in ElemTypes}

\* decode_prefixed with the body decoded before the ID is compared.
decode_prefixed_BodyFirst(P, d) ==
    LET r == DecodeIter_read(d) IN
    IF ~r.ok
    THEN [kind |-> "Error", err |-> r.err, called |-> FALSE, value |-> FALSE,
          found |-> 0, expected |-> P.PREFIX, d |-> r.d]
    ELSE LET e == ElemDecode(P.T, r.d) IN
         IF r.bytes[1] = P.PREFIX
         THEN [kind |-> IF e.ok THEN "Ok" ELSE "Error", err |-> e.err,
               called |-> TRUE, value |-> e.value,
               found |-> r.bytes[1], expected |-> P.PREFIX, d |-> e.d]
         ELSE [kind |-> "UnknownPrefix", err |-> "", called |-> TRUE,
               value |-> FALSE,
               found |-> r.bytes[1], expected |-> P.PREFIX, d |-> e.d]

\* The outcome e of <P as PacketDecode>::decode as that of decode_prefixed.
decode_prefixed_body(P, b, e) ==
    [kind |-> IF e.ok THEN "Ok" ELSE "Error", err |-> e.err,
     called |-> TRUE, value |-> e.value,
     found |-> b, expected |-> P.PREFIX, d |-> e.d]

\* decode_prefixed from the outcome r of `iter.read()` on.
decode_prefixed_read(P, r) ==
    IF ~r.ok
    THEN [kind |-> "Error", err |-> r.err, called |-> FALSE, value |-> FALSE,
          found |-> 0, expected |-> P.PREFIX, d |-> r.d]
    ELSE IF r.bytes[1] = P.PREFIX
    THEN decode_prefixed_body(P, r.bytes[1], ElemDecode(P.T, r.d))
    ELSE [kind |-> "UnknownPrefix", err |-> "", called |-> FALSE,
          value |-> FALSE,
          found |-> r.bytes[1], expected |-> P.PREFIX, d |-> r.d]

\* <P as PrefixedPacketDecode>::decode_prefixed: `iter.read()?` turns the
\* IncompleteDecodeError into PrefixedDecodeError::Error; `called` tells
\* whether <P as PacketDecode>::decode was entered.
decode_prefixed(P, d) == decode_prefixed_read(P, DecodeIter_read(d))

RECURSIVE Flatten(_)
Flatten(q) == IF q = <<>> THEN <<>> ELSE Head(q) \o Flatten(Tail(q))

MaxStr  == 3
MaxText == 2

\* "A", the two bytes of U+00E9, a lead byte on its own, and the bytes
\* FF FE FD that no UTF-8 sequence holds.
TextChunks    == {<<65>>, <<195, 169>>, <<195>>, <<255, 254, 253>>}
StringSources ==
    {<<>>} \cup {<<n>> \o Flatten(q) :
                    n \in 0..MaxStr, q \in SeqsUpTo(TextChunks, MaxText)}

MaxVec    == 2
MaxChunks == 4

\* What follows the count: a one-byte element, a one-byte VarInt with the
\* byte after it, and five continuation bytes, which no VarInt<u32> starts
\* with.
Chunks     == {<<1>>, <<1, 1>>, <<129, 129, 129, 129, 129>>}
VecSources ==
    {<<n>> \o Flatten(q) : n \in 0..MaxVec, q \in SeqsUpTo(Chunks, MaxChunks)}

CompositeSources == StringSources \cup VecSources

InitComposite ==
    /\ phase = "composite"
    /\ source \in {[kind |-> "raw", bytes |-> b, trail |-> <<>>] :
                      b \in CompositeSources}
    /\ di = DecodeIter_from(source.bytes)
    /\ last = NoLast
    /\ val = NoVal /\ prefix = NoPrefix
    /\ elen = "none" /\ ebuf = NoBuf /\ eres = "none"
    /\ arr = NoArr
    /\ cell = NoCell /\ thr = <<>> /\ ret = NoLast /\ wins = <<>>

compositeRest == <<phase, source, codecVars, arrayVars, cellVars>>

\* A decoder is called on a fresh cursor.
CanDecode == phase = "composite" /\ last = NoLast

\* String::decode(&mut iter)
StringDecode ==
    /\ CanDecode
    /\ LET r == String_decode(di) IN
          /\ di' = r.d
          /\ last' = [op |-> "String::decode", kind |-> r.kind, err |-> r.err,
                      value |-> r.value, head0 |-> di.head, iter0 |-> di.iter]
    /\ UNCHANGED compositeRest

\* <Vec<T>>::decode(&mut iter)
VecDecode ==
    /\ CanDecode
    /\ \E T \in ElemTypes :
          LET r == Vec_decode(T, di) IN
          /\ di' = r.d
          /\ last' = [op |-> "Vec::decode", T |-> T, kind |-> r.kind,
                      index |-> r.index, err |-> r.err, tries |-> r.tries,
                      head0 |-> di.head, iter0 |-> di.iter]
    /\ UNCHANGED compositeRest

\* P::decode_prefixed(&mut iter)
PrefixedDecode ==
    /\ CanDecode
    /\ \E P \in PacketTypes :
          LET r == decode_prefixed(P, di) IN
          /\ di' = r.d
          /\ last' = [op |-> "decode_prefixed", P |-> P, kind |-> r.kind,
                      err |-> r.err, called |-> r.called, value |-> r.value,
                      found |-> r.found, expected |-> r.expected,
                      head0 |-> di.head, iter0 |-> di.iter]
    /\ UNCHANGED compositeRest

NextComposite == StringDecode \/ VecDecode \/ PrefixedDecode

SpecComposite == InitComposite /\ [][NextComposite]_vars

\* C13: a String decoded from a one-byte VarInt length n followed by exactly n
\* bytes is those bytes when they are valid UTF-8 and the Utf8 error
\* otherwise; the length 3 followed by FF FE FD gives Utf8.
C13_StringUtf8 ==
    (last.op = "String::decode" /\ last.iter0 # <<>>
        /\ Len(last.iter0) = 1 + last.iter0[1])
        => IF from_utf8_ok(Tail(last.iter0))
           THEN last.kind = "Ok" /\ last.value = Tail(last.iter0)
           ELSE last.kind = "Utf8"

\* C14: Vec<T>::decode returns Length exactly when the VarInt count fails to
\* decode, and then no element is tried; otherwise the elements are tried in
\* the order 0, 1, 2, ...; the result is Item{index: i, err: cause} for the
\* first failing element i, every element below i having succeeded, none
\* after i tried and no byte pulled after the failing call; with no failing
\* element all `length` elements were decoded.
C14_VecAttribution ==
    last.op = "Vec::decode"
        => LET l == VarInt_decode("u32", [iter |-> last.iter0,
                                          head |-> last.head0])
               n == Len(last.tries) IN
           /\ (last.kind = "Length") <=> (l.kind # "Ok")
           /\ last.kind = "Length"
                => (last.err = l.kind /\ n = 0 /\ di = l.d)
           /\ \A k \in 1..n :
                /\ last.tries[k].index = k - 1
                /\ (k < n) => last.tries[k].ok
           /\ last.kind = "Item"
                => /\ n >= 1 /\ ~last.tries[n].ok
                   /\ last.index = n - 1
                   /\ last.err = last.tries[n].err
                   /\ di = last.tries[n].d
           /\ last.kind = "Ok"
                => /\ n = AsUsize(l.value)
                   /\ (n >= 1) => (last.tries[n].ok /\ di = last.tries[n].d)
                   /\ (n = 0) => (di = l.d)

\* Element 1 of a Vec<VarInt<u32>> fails after element 0 succeeded, with
\* bytes left in the source.
C14_Witness ==
    /\ last.op = "Vec::decode" /\ last.kind = "Item"
    /\ last.index >= 1 /\ di.iter # <<>>

\* C15: decode_prefixed for a packet type with declared ID P: on an empty
\* stream it fails with the error made from Incomplete and consumes nothing;
\* on a first byte b # P it fails with UnknownPrefix{found: b, expected:
\* Some(P)}, consumes exactly one byte and does not call the unprefixed
\* decoder; on b = P its result and its cursor are those of the unprefixed
\* decoder run on the bytes after b.
C15_UnknownPrefix ==
    last.op = "decode_prefixed"
        => /\ last.iter0 = <<>>
                => /\ last.kind = "Error" /\ last.err = Incomplete
                   /\ ~last.called
                   /\ di = [iter |-> <<>>, head |-> last.head0]
           /\ (last.iter0 # <<>> /\ last.iter0[1] # last.P.PREFIX)
                => /\ last.kind = "UnknownPrefix"
                   /\ last.found = last.iter0[1]
                   /\ last.expected = last.P.PREFIX
                   /\ ~last.called
                   /\ consumed(di) = last.head0 + 1
                   /\ di.iter = Tail(last.iter0)
           /\ (last.iter0 # <<>> /\ last.iter0[1] = last.P.PREFIX)
                => LET e == ElemDecode(last.P.T, [iter |-> Tail(last.iter0),
                                                  head |-> last.head0 + 1]) IN
                   /\ last.called
                   /\ e.ok => (last.kind = "Ok" /\ last.value = e.value)
                   /\ ~e.ok => (last.kind = "Error" /\ last.err = e.err)
                   /\ di = e.d

\* A first byte that is not the declared ID, with bytes after it.
C15_Witness ==
    /\ last.op = "decode_prefixed" /\ last.kind = "UnknownPrefix"
    /\ Len(last.iter0) >= 2 /\ consumed(di) = 1

---------------------------------------------------------------------------
(* The prefixed encoder: src/encode/mod.rs *)

\* <P as PrefixedPacketEncode>::encode_prefixed_len, for a packet that wraps
\* the VarInt v.
encode_prefixed_len(v) == 1 + VarIntType_encode_len(v)

\* encode_prefixed with the two writes in the other order.
encode_prefixed_BodyFirst(P, v, buf) ==
    EncodeBuf_write(VarInt_encode(v, buf), P)

\* <P as PrefixedPacketEncode>::encode_prefixed: buf.write(PREFIX), then
\* <P as PacketEncode>::encode(self, buf).
encode_prefixed(P, v, buf) == VarInt_encode(v, EncodeBuf_write(buf, P))

InitPrefixed ==
    /\ phase = "packet"
    /\ val \in Values
    /\ prefix \in Prefixes
    /\ elen = "none" /\ ebuf = NoBuf /\ eres = "none"
    /\ source = NoSrc
    /\ di = DecodeIter_from(<<>>)
    /\ last = NoLast
    /\ arr = NoArr
    /\ cell = NoCell /\ thr = <<>> /\ ret = NoLast /\ wins = <<>>

prefixedRest == <<val, prefix, source, di, last, arrayVars, cellVars>>

\* encode_prefixed_len, then EncodeBuf::new(encode_prefixed_len)
SizePrefixed ==
    /\ phase = "packet"
    /\ elen' = encode_prefixed_len(val)
    /\ ebuf' = EncodeBuf_new(encode_prefixed_len(val))
    /\ phase' = "packet sized"
    /\ UNCHANGED <<eres, prefixedRest>>

\* encode_prefixed into the buffer; an encode that stops at the scratch
\* array has written the ID already.
EncodePrefixed ==
    /\ phase = "packet sized"
    /\ \E o \in EncodeOutcomes(val) :
          /\ eres' = o
          /\ ebuf' = IF o = "panic" THEN EncodeBuf_write(ebuf, prefix)
                     ELSE encode_prefixed(prefix, val, ebuf)
    /\ phase' = "packet encoded"
    /\ UNCHANGED <<elen, prefixedRest>>

NextPrefixed == SizePrefixed \/ EncodePrefixed

SpecPrefixed == InitPrefixed /\ [][NextPrefixed]_vars

\* What <VarInt<T> as PacketEncode>::encode writes when it ends as o.
UnprefixedBytes(v, o) == IF o = "panic" THEN <<>> ELSE VarIntType_encode(v)

\* C16: encode_prefixed_len is 1 + encode_len; encode_prefixed into a buffer
\* of that capacity writes the declared ID first and then exactly the bytes
\* of the unprefixed encode, and written() = len() whenever the unprefixed
\* encode writes encode_len bytes.
C16_PrefixedLayout ==
    /\ phase \in {"packet sized", "packet encoded"}
         => (elen = 1 + VarIntType_encode_len(val) /\ ebuf.len = elen)
    /\ phase = "packet encoded"
         => /\ ebuf.mem # <<>> /\ ebuf.mem[1] = prefix
            /\ Tail(ebuf.mem) = UnprefixedBytes(val, eres)
            /\ Len(VarIntType_encode(val)) = VarIntType_encode_len(val)
                 => /\ eres = "ok"
                    /\ written(ebuf) = ebuf.len
                    /\ Len(ebuf.mem) = ebuf.len

\* A packet whose VarInt takes three bytes has been encoded after its ID.
C16_Witness ==
    /\ phase = "packet encoded" /\ eres = "ok"
    /\ Len(ebuf.mem) = 4 /\ written(ebuf) = ebuf.len

============================================================================
